---- MODULE Spec2Model ----
\* tacopie: tcp_socket (sources/network/tcp_socket.cpp) and tcp_server
\* (sources/network/tcp_server.cpp) as a state machine.
\*
\*  - The operating system is a table of descriptors (os_fd) with the number
\*    of ::close() calls each one received (os_closes).
\*  - A tcp_socket is a record [fd, type]; its member functions are operators
\*    from a socket and the OS table to the new socket, the new OS table and
\*    the outcome ("ok" or the message of the exception thrown).
\*  - SockSpec drives two free-standing sockets through the public tcp_socket
\*    interface.
\*  - Spec runs one tcp_server with three threads: the caller (start, stop,
\*    destructor), the reactor thread (on_read_available) and a worker thread
\*    (a client's disconnection, which calls on_client_disconnected).
EXTENDS Integers, Sequences, FiniteSets, TLC

\* ---------------------------------------------------------------- bounds
MaxFd == 3
MaxClients == 1
MaxStarts == 2
MaxRead == 2

\* ------------------------------------------------------------- constants
\* tcp_socket.cpp:19  m_fd(-1): the unset descriptor
NoFd == -1
\* tcp_socket.cpp:63  ::recv returned -1
RecvError == -1
\* tcp_socket.cpp:65  ::recv returned 0: the peer closed the connection
RecvClosed == 0

Fds == 1..MaxFd
ClientIds == 1..MaxClients
Types == {"UNKNOWN", "CLIENT", "SERVER"}
SockIds == {"a", "b"}
Threads == {"caller", "reactor", "worker"}
\* admission callbacks a caller may pass to start(); "null" is nullptr
Callbacks == {"null", "cb1"}

VARIABLES
  os_fd,          \* OS: descriptor -> "unused" | "open" | "bound" | "listening" | "connected" | "closed"
  os_closes,      \* OS: descriptor -> number of ::close() calls on it (capped at 2)
  sk,             \* free-standing sockets: SockIds -> [fd, type]
  role_by,        \* per free socket: what wrote m_type last
  sk_call,        \* the last tcp_socket call made on a free socket: [op, s]
  sk_result,      \* its outcome
  sk_recv,        \* the last call, when it is a recv() that reached ::recv:
                  \* [size_to_read, rd_size, data_len]
  m_is_running,
  m_on_new_connection_callback,
  m_socket,       \* the listening tcp_socket [fd, type]
  m_clients,      \* std::list<std::shared_ptr<tcp_client>>: sequence of client ids
  m_clients_mtx,  \* "free" or the thread that holds it
  io_tracked,     \* io_service: the listening socket is tracked
  io_rd_callback, \* io_service: its read callback is set
  client,         \* tcp_client objects: ClientIds -> record
  pc,             \* Threads -> position
  stop_it,        \* Threads -> index of stop()'s loop over m_clients
  ocd_client,     \* Threads -> argument of on_client_disconnected
  ocd_ret,        \* Threads -> where on_client_disconnected returns to
  acc_client,     \* reactor: the client made from the accepted socket (0: none)
  arg_cb,         \* caller: callback argument of the latest start()
  run_cb,         \* callback argument of the latest start() that got past line 29
  last_call,      \* caller: the latest public call
  result,         \* caller: outcome of the latest public call
  n_starts,       \* number of start() calls made
  accept_failed   \* an accept() failure was caught since the latest start() call

sockVars == <<sk, role_by, sk_call, sk_result, sk_recv>>
osVars == <<os_fd, os_closes>>
serverVars == <<m_is_running, m_on_new_connection_callback, m_socket, m_clients,
                m_clients_mtx, io_tracked, io_rd_callback, client>>
threadVars == <<pc, stop_it, ocd_client, ocd_ret, acc_client>>
callerVars == <<arg_cb, run_cb, last_call, result, n_starts, accept_failed>>
vars == <<os_fd, os_closes, sk, role_by, sk_call, sk_result, sk_recv,
          m_is_running, m_on_new_connection_callback, m_socket, m_clients,
          m_clients_mtx, io_tracked, io_rd_callback, client,
          pc, stop_it, ocd_client, ocd_ret, acc_client,
          arg_cb, run_cb, last_call, result, n_starts, accept_failed>>

\* ------------------------------------------------------------------- OS
\* socket(): the lowest descriptor never handed out, NoFd when none is left
FreshFd(o) ==
  IF \E f \in Fds : o[f] = "unused"
  THEN CHOOSE f \in Fds : o[f] = "unused" /\ \A g \in Fds : o[g] = "unused" => f <= g
  ELSE NoFd

\* what socket() may return: a new descriptor, or -1
SocketResults(o) == {NoFd, FreshFd(o)}

\* ::close(fd)
OsClose(o, c, fd) ==
  [os |-> [o EXCEPT ![fd] = "closed"],
   closes |-> [c EXCEPT ![fd] = IF c[fd] >= 2 THEN 2 ELSE c[fd] + 1]]

\* ------------------------------------------------------------ tcp_socket
\* tcp_socket::tcp_socket(void)
tcp_socket_default == [fd |-> NoFd, type |-> "UNKNOWN"]

\* tcp_socket::tcp_socket(fd_t, host, port, type)
tcp_socket_from(fd, t) == [fd |-> fd, type |-> t]

\* tcp_socket::create_socket_if_necessary; newfd is what socket() returns
create_socket_if_necessary(s, o, newfd) ==
  IF s.fd # NoFd THEN [sock |-> s, os |-> o, thrown |-> FALSE]
  ELSE IF newfd = NoFd
       THEN [sock |-> [fd |-> NoFd, type |-> "UNKNOWN"], os |-> o, thrown |-> TRUE]
       ELSE [sock |-> [fd |-> newfd, type |-> "UNKNOWN"],
             os |-> [o EXCEPT ![newfd] = "open"], thrown |-> FALSE]

\* a check_or_set_type that never throws
check_or_set_type_unchecked(s, t) ==
  [sock |-> [s EXCEPT !.type = t], thrown |-> FALSE]

\* tcp_socket::check_or_set_type
check_or_set_type(s, t) ==
  IF s.type # "UNKNOWN" /\ s.type # t
  THEN [sock |-> s, thrown |-> TRUE]
  ELSE [sock |-> [s EXCEPT !.type = t], thrown |-> FALSE]

\* the common entry of every operation: create_socket_if_necessary, then
\* check_or_set_type(t); res is "ok" or the exception
Enter(s, o, newfd, t) ==
  LET c == create_socket_if_necessary(s, o, newfd)
  IN IF c.thrown
     THEN [sock |-> c.sock, os |-> c.os, res |-> "socket() failure"]
     ELSE LET k == check_or_set_type(c.sock, t)
          IN [sock |-> k.sock, os |-> c.os,
              res |-> IF k.thrown THEN "invalid operation" ELSE "ok"]

\* tcp_socket::connect
tcp_socket_connect(s, o, newfd, dns_ok, sys_ok) ==
  LET e == Enter(s, o, newfd, "CLIENT")
  IN IF e.res # "ok" THEN e
     ELSE IF ~dns_ok THEN [e EXCEPT !.res = "gethostbyname() failure"]
     ELSE IF ~(sys_ok /\ e.os[e.sock.fd] = "open")
          THEN [e EXCEPT !.res = "connect() failure"]
          ELSE [e EXCEPT !.os = [e.os EXCEPT ![e.sock.fd] = "connected"]]

\* tcp_socket::send
tcp_socket_send(s, o, newfd, sys_ok) ==
  LET e == Enter(s, o, newfd, "CLIENT")
  IN IF e.res # "ok" THEN e
     ELSE IF ~(sys_ok /\ e.os[e.sock.fd] = "connected")
          THEN [e EXCEPT !.res = "send() failure"]
          ELSE e

\* ::recv(fd, buffer, n): the number of bytes received (1..n), 0 when the
\* peer has closed the connection, -1 on error. Only a connected descriptor
\* receives anything.
OsRecvResults(o, fd, n) ==
  IF fd # NoFd /\ o[fd] = "connected" THEN {RecvError, RecvClosed} \cup 1..n ELSE {RecvError}

\* no buffer is returned: the call threw
NoData == -1

\* a recv that reports the peer's close as a failure of ::recv
tcp_socket_recv_sys_conflated(size_to_read, rd_size) ==
  IF rd_size \in {RecvError, RecvClosed} THEN [res |-> "recv() failure", data_len |-> NoData]
  ELSE [res |-> "ok", data_len |-> size_to_read]

\* tcp_socket::recv, lines 59-67: the buffer is made with size_to_read
\* bytes, ::recv returns rd_size, and the buffer is returned as it was made;
\* data_len is the length of the std::vector returned
tcp_socket_recv_sys(size_to_read, rd_size) ==
  IF rd_size = RecvError THEN [res |-> "recv() failure", data_len |-> NoData]
  ELSE IF rd_size = RecvClosed
       THEN [res |-> "nothing to read, socket has been closed by remote host",
             data_len |-> NoData]
       ELSE [res |-> "ok", data_len |-> size_to_read]

\* tcp_socket::recv; rd_size is what ::recv returns
tcp_socket_recv(s, o, newfd, size_to_read, rd_size) ==
  LET e == Enter(s, o, newfd, "CLIENT")
  IN IF e.res # "ok"
     THEN [sock |-> e.sock, os |-> e.os, res |-> e.res, data_len |-> NoData]
     ELSE LET r == tcp_socket_recv_sys(size_to_read,
                     IF rd_size \in OsRecvResults(e.os, e.sock.fd, size_to_read)
                     THEN rd_size ELSE RecvError)
          IN [sock |-> e.sock, os |-> e.os, res |-> r.res, data_len |-> r.data_len]

\* tcp_socket::bind
tcp_socket_bind(s, o, newfd, dns_ok, sys_ok) ==
  LET e == Enter(s, o, newfd, "SERVER")
  IN IF e.res # "ok" THEN e
     ELSE IF ~dns_ok THEN [e EXCEPT !.res = "gethostbyname() failure"]
     ELSE IF ~(sys_ok /\ e.os[e.sock.fd] = "open")
          THEN [e EXCEPT !.res = "bind() failure"]
          ELSE [e EXCEPT !.os = [e.os EXCEPT ![e.sock.fd] = "bound"]]

\* tcp_socket::listen
tcp_socket_listen(s, o, newfd, sys_ok) ==
  LET e == Enter(s, o, newfd, "SERVER")
  IN IF e.res # "ok" THEN e
     ELSE IF ~(sys_ok /\ e.os[e.sock.fd] \in {"open", "bound", "listening"})
          THEN [e EXCEPT !.res = "listen() failure"]
          ELSE [e EXCEPT !.os = [e.os EXCEPT ![e.sock.fd] = "listening"]]

\* ::accept(fd): the descriptor of the new connection, or -1. It yields a
\* connection only on a listening descriptor and may fail on any.
OsAcceptResults(o, fd) ==
  IF fd # NoFd /\ o[fd] = "listening" THEN {NoFd, FreshFd(o)} ELSE {NoFd}

\* tcp_socket::accept, lines 138-143; client_fd is what ::accept returns.
\* new is the socket returned.
tcp_socket_accept_sys(s, o, client_fd) ==
  IF client_fd = NoFd
  THEN [sock |-> s, os |-> o, res |-> "accept() failure", new |-> tcp_socket_default]
  ELSE [sock |-> s, os |-> [o EXCEPT ![client_fd] = "connected"], res |-> "ok",
        new |-> tcp_socket_from(client_fd, "CLIENT")]

\* tcp_socket::accept
tcp_socket_accept(s, o, newfd, client_fd) ==
  LET e == Enter(s, o, newfd, "SERVER")
  IN IF e.res # "ok" THEN [sock |-> e.sock, os |-> e.os, res |-> e.res, new |-> tcp_socket_default]
     ELSE tcp_socket_accept_sys(e.sock, e.os,
            IF client_fd \in OsAcceptResults(e.os, e.sock.fd) THEN client_fd ELSE NoFd)

\* a close that forgets to unset the descriptor
tcp_socket_close_keepfd(s, o, c) ==
  IF s.fd # NoFd
  THEN [sock |-> [fd |-> s.fd, type |-> "UNKNOWN"],
        os |-> OsClose(o, c, s.fd).os, closes |-> OsClose(o, c, s.fd).closes]
  ELSE [sock |-> [fd |-> NoFd, type |-> "UNKNOWN"], os |-> o, closes |-> c]

\* tcp_socket::close
tcp_socket_close(s, o, c) ==
  IF s.fd # NoFd
  THEN [sock |-> [fd |-> NoFd, type |-> "UNKNOWN"],
        os |-> OsClose(o, c, s.fd).os, closes |-> OsClose(o, c, s.fd).closes]
  ELSE [sock |-> [fd |-> NoFd, type |-> "UNKNOWN"], os |-> o, closes |-> c]

\* a move that leaves the source as it was
tcp_socket_move_copy(src) ==
  [dst |-> [fd |-> src.fd, type |-> src.type],
   src |-> src]

\* tcp_socket::tcp_socket(tcp_socket&&): [dst, src] after the move
tcp_socket_move(src) ==
  [dst |-> [fd |-> src.fd, type |-> src.type],
   src |-> [fd |-> NoFd, type |-> "UNKNOWN"]]

\* tcp_socket::set_type
tcp_socket_set_type(s, t) == [s EXCEPT !.type = t]

\* ------------------------------------------------- free-standing sockets
\* who wrote m_type after an operation entered with outcome res
RoleByAfter(s, res) ==
  IF res = "socket() failure" THEN "none"
  ELSE IF res = "invalid operation" THEN role_by[s]
  ELSE "op"

\* the last call is no recv(), or a recv() that threw before ::recv
NoRecv == [size_to_read |-> 0, rd_size |-> RecvError, data_len |-> NoData]

\* the bookkeeping common to the operations on free socket s
SockDone(op, s, e) ==
  /\ sk' = [sk EXCEPT ![s] = e.sock]
  /\ os_fd' = e.os
  /\ role_by' = [role_by EXCEPT ![s] = RoleByAfter(s, e.res)]
  /\ sk_call' = [op |-> op, s |-> s]
  /\ sk_result' = e.res
  /\ sk_recv' = NoRecv
  /\ UNCHANGED <<os_closes, serverVars, threadVars, callerVars>>

SockConnect(s) ==
  \E newfd \in SocketResults(os_fd), dns_ok \in BOOLEAN, sys_ok \in BOOLEAN :
    SockDone("connect", s, tcp_socket_connect(sk[s], os_fd, newfd, dns_ok, sys_ok))

SockSend(s) ==
  \E newfd \in SocketResults(os_fd), sys_ok \in BOOLEAN :
    SockDone("send", s, tcp_socket_send(sk[s], os_fd, newfd, sys_ok))

SockRecv(s) ==
  \E newfd \in SocketResults(os_fd), size_to_read \in 1..MaxRead :
    LET e0 == Enter(sk[s], os_fd, newfd, "CLIENT")
    IN \E rd_size \in OsRecvResults(e0.os, e0.sock.fd, size_to_read) :
         LET e == tcp_socket_recv(sk[s], os_fd, newfd, size_to_read, rd_size)
         IN /\ sk' = [sk EXCEPT ![s] = e.sock]
            /\ os_fd' = e.os
            /\ role_by' = [role_by EXCEPT ![s] = RoleByAfter(s, e.res)]
            /\ sk_call' = [op |-> "recv", s |-> s]
            /\ sk_result' = e.res
            /\ sk_recv' = IF e0.res = "ok"
                          THEN [size_to_read |-> size_to_read, rd_size |-> rd_size,
                                data_len |-> e.data_len]
                          ELSE NoRecv
            /\ UNCHANGED <<os_closes, serverVars, threadVars, callerVars>>

SockBind(s) ==
  \E newfd \in SocketResults(os_fd), dns_ok \in BOOLEAN, sys_ok \in BOOLEAN :
    SockDone("bind", s, tcp_socket_bind(sk[s], os_fd, newfd, dns_ok, sys_ok))

SockListen(s) ==
  \E newfd \in SocketResults(os_fd), sys_ok \in BOOLEAN :
    SockDone("listen", s, tcp_socket_listen(sk[s], os_fd, newfd, sys_ok))

\* accept() on s; the socket it returns is move-constructed into the empty slot d
SockAccept(s, d) ==
  /\ d # s
  /\ sk[d] = tcp_socket_default
  /\ \E newfd \in SocketResults(os_fd) :
       LET e0 == Enter(sk[s], os_fd, newfd, "SERVER")
       IN \E client_fd \in OsAcceptResults(e0.os, e0.sock.fd) :
            LET e == tcp_socket_accept(sk[s], os_fd, newfd, client_fd)
            IN /\ sk' = [sk EXCEPT ![s] = e.sock, ![d] = e.new]
               /\ os_fd' = e.os
               /\ role_by' = [role_by EXCEPT ![s] = RoleByAfter(s, e.res),
                                             ![d] = IF e.res = "ok" THEN "ctor" ELSE "none"]
               /\ sk_call' = [op |-> "accept", s |-> s]
               /\ sk_result' = e.res
               /\ sk_recv' = NoRecv
               /\ UNCHANGED <<os_closes, serverVars, threadVars, callerVars>>

SockClose(s) ==
  LET e == tcp_socket_close(sk[s], os_fd, os_closes)
  IN /\ sk' = [sk EXCEPT ![s] = e.sock]
     /\ os_fd' = e.os
     /\ os_closes' = e.closes
     /\ role_by' = [role_by EXCEPT ![s] = "none"]
     /\ sk_call' = [op |-> "close", s |-> s]
     /\ sk_result' = IF sk[s].fd # NoFd THEN "close socket" ELSE "no socket to close"
     /\ sk_recv' = NoRecv
     /\ UNCHANGED <<serverVars, threadVars, callerVars>>

SockSetType(s) ==
  \E t \in Types :
    /\ sk' = [sk EXCEPT ![s] = tcp_socket_set_type(sk[s], t)]
    /\ role_by' = [role_by EXCEPT ![s] = "set_type"]
    /\ sk_call' = [op |-> "set_type", s |-> s]
    /\ sk_result' = "ok"
    /\ sk_recv' = NoRecv
    /\ UNCHANGED <<osVars, serverVars, threadVars, callerVars>>

\* a new socket is move-constructed in the empty slot d from s
SockMove(s, d) ==
  /\ d # s
  /\ sk[d] = tcp_socket_default
  /\ LET m == tcp_socket_move(sk[s])
     IN sk' = [sk EXCEPT ![s] = m.src, ![d] = m.dst]
  /\ role_by' = [role_by EXCEPT ![s] = "none", ![d] = role_by[s]]
  /\ sk_call' = [op |-> "move", s |-> s]
  /\ sk_result' = "ok"
  /\ sk_recv' = NoRecv
  /\ UNCHANGED <<osVars, serverVars, threadVars, callerVars>>

\* a new socket is built in the empty slot d with the four-argument
\* constructor, from no descriptor or from one its caller just got from the
\* OS and gives to this socket alone
SockCtor(d) ==
  /\ sk[d] = tcp_socket_default
  /\ \E fd \in SocketResults(os_fd), t \in Types :
       /\ sk' = [sk EXCEPT ![d] = tcp_socket_from(fd, t)]
       /\ os_fd' = IF fd = NoFd THEN os_fd ELSE [os_fd EXCEPT ![fd] = "open"]
       /\ role_by' = [role_by EXCEPT ![d] = "ctor"]
       /\ sk_call' = [op |-> "ctor", s |-> d]
       /\ sk_result' = "ok"
       /\ sk_recv' = NoRecv
       /\ UNCHANGED <<os_closes, serverVars, threadVars, callerVars>>

SockNext ==
  \/ \E s \in SockIds : SockConnect(s)
  \/ \E s \in SockIds : SockSend(s)
  \/ \E s \in SockIds : SockRecv(s)
  \/ \E s \in SockIds : SockBind(s)
  \/ \E s \in SockIds : SockListen(s)
  \/ \E s \in SockIds, d \in SockIds : SockAccept(s, d)
  \/ \E s \in SockIds : SockClose(s)
  \/ \E s \in SockIds : SockSetType(s)
  \/ \E s \in SockIds, d \in SockIds : SockMove(s, d)
  \/ \E s \in SockIds : SockCtor(s)

\* --------------------------------------------------------------- clients
\* a tcp_client that does not exist yet
NoClient ==
  [fd |-> NoFd, accepted_fd |-> NoFd, connected |-> FALSE, wired |-> FALSE,
   offered_to |-> "none", start_cb |-> "none", verdict |-> "none", handler |-> "none"]

\* ---------------------------------------------------------------- Init
Init ==
  /\ os_fd = [f \in Fds |-> "unused"]
  /\ os_closes = [f \in Fds |-> 0]
  /\ sk = [s \in SockIds |-> tcp_socket_default]
  /\ role_by = [s \in SockIds |-> "none"]
  /\ sk_call = [op |-> "none", s |-> "a"]
  /\ sk_result = "ok"
  /\ sk_recv = NoRecv
  /\ m_is_running = FALSE
  /\ m_on_new_connection_callback = "null"
  /\ m_socket = tcp_socket_default
  /\ m_clients = << >>
  /\ m_clients_mtx = "free"
  /\ io_tracked = FALSE
  /\ io_rd_callback = FALSE
  /\ client = [c \in ClientIds |-> NoClient]
  /\ pc = [t \in Threads |-> "idle"]
  /\ stop_it = [t \in Threads |-> 1]
  /\ ocd_client = [t \in Threads |-> 0]
  /\ ocd_ret = [t \in Threads |-> "idle"]
  /\ acc_client = 0
  /\ arg_cb = "null"
  /\ run_cb = "null"
  /\ last_call = "none"
  /\ result = "none"
  /\ n_starts = 0
  /\ accept_failed = FALSE

\* ----------------------------------------------------------- tcp_client
\* tcp_client::disconnect: closes the connection's socket once; a call on a
\* disconnected client does nothing. call_handler: the disconnection
\* handler is to be invoked.
tcp_client_disconnect(c, o, cl) ==
  IF client[c].connected
  THEN [rec |-> [client[c] EXCEPT !.connected = FALSE, !.fd = NoFd],
        os |-> OsClose(o, cl, client[c].fd).os,
        closes |-> OsClose(o, cl, client[c].fd).closes,
        call_handler |-> client[c].wired]
  ELSE [rec |-> client[c], os |-> o, closes |-> cl, call_handler |-> FALSE]

\* tcp_client::tcp_client(tcp_socket&&) around the accepted socket s
tcp_client_from(s) ==
  [fd |-> s.fd, accepted_fd |-> s.fd, connected |-> TRUE, wired |-> FALSE,
   offered_to |-> "none", start_cb |-> run_cb, verdict |-> "none", handler |-> "none"]

\* the next tcp_client object, 0 when MaxClients were made
NewClient ==
  IF \E c \in ClientIds : client[c] = NoClient
  THEN CHOOSE c \in ClientIds : client[c] = NoClient /\ \A d \in ClientIds : client[d] = NoClient => c <= d
  ELSE 0

InClients(c) == \E i \in 1..Len(m_clients) : m_clients[i] = c

\* std::find + erase of the first occurrence
EraseClient(list, c) ==
  IF \E i \in 1..Len(list) : list[i] = c
  THEN LET i == CHOOSE j \in 1..Len(list) : list[j] = c /\ \A k \in 1..Len(list) : list[k] = c => j <= k
       IN SubSeq(list, 1, i - 1) \o SubSeq(list, i + 1, Len(list))
  ELSE list

\* ---------------------------------------------------- tcp_server::start
\* the caller calls start(host, port, cb)
CallStart(cb) ==
  /\ pc["caller"] = "idle"
  /\ last_call # "dtor"
  /\ n_starts < MaxStarts
  /\ pc' = [pc EXCEPT !["caller"] = "start_29"]
  /\ arg_cb' = cb
  /\ last_call' = "start"
  /\ result' = "pending"
  /\ n_starts' = n_starts + 1
  /\ accept_failed' = FALSE
  /\ UNCHANGED <<osVars, sockVars, serverVars, stop_it, ocd_client, ocd_ret, acc_client, run_cb>>

\* a start() without its already-running check
start_29_unguarded ==
  /\ pc["caller"] = "start_29"
  /\ pc' = [pc EXCEPT !["caller"] = "start_31"]
  /\ run_cb' = arg_cb
  /\ UNCHANGED <<osVars, sockVars, serverVars, stop_it, ocd_client, ocd_ret,
                 acc_client, arg_cb, last_call, result, n_starts, accept_failed>>

\* line 29
start_29 ==
  /\ pc["caller"] = "start_29"
  /\ IF m_is_running
     THEN /\ pc' = [pc EXCEPT !["caller"] = "idle"]
          /\ result' = "tcp_server is already running"
          /\ UNCHANGED run_cb
     ELSE /\ pc' = [pc EXCEPT !["caller"] = "start_31"]
          /\ run_cb' = arg_cb
          /\ UNCHANGED result
  /\ UNCHANGED <<osVars, sockVars, serverVars, stop_it, ocd_client, ocd_ret,
                 acc_client, arg_cb, last_call, n_starts, accept_failed>>

\* a start() that catches the socket's exception and carries on
StartAfter_swallow(res, next) ==
  /\ pc' = [pc EXCEPT !["caller"] = next]
  /\ UNCHANGED result

\* lines 31-32: an exception of bind or listen leaves start(); res is the
\* outcome of the socket call, next the line that follows it
StartAfter(res, next) ==
  IF res = "ok"
  THEN /\ pc' = [pc EXCEPT !["caller"] = next]
       /\ UNCHANGED result
  ELSE /\ pc' = [pc EXCEPT !["caller"] = "idle"]
       /\ result' = res

\* line 31
start_31 ==
  /\ pc["caller"] = "start_31"
  /\ \E newfd \in SocketResults(os_fd), dns_ok \in BOOLEAN, sys_ok \in BOOLEAN :
       LET e == tcp_socket_bind(m_socket, os_fd, newfd, dns_ok, sys_ok)
       IN /\ m_socket' = e.sock
          /\ os_fd' = e.os
          /\ StartAfter(e.res, "start_32")
  /\ UNCHANGED <<os_closes, sockVars, m_is_running, m_on_new_connection_callback,
                 m_clients, m_clients_mtx, io_tracked, io_rd_callback, client,
                 stop_it, ocd_client, ocd_ret, acc_client,
                 arg_cb, run_cb, last_call, n_starts, accept_failed>>

\* line 32
start_32 ==
  /\ pc["caller"] = "start_32"
  /\ \E newfd \in SocketResults(os_fd), sys_ok \in BOOLEAN :
       LET e == tcp_socket_listen(m_socket, os_fd, newfd, sys_ok)
       IN /\ m_socket' = e.sock
          /\ os_fd' = e.os
          /\ StartAfter(e.res, "start_34")
  /\ UNCHANGED <<os_closes, sockVars, m_is_running, m_on_new_connection_callback,
                 m_clients, m_clients_mtx, io_tracked, io_rd_callback, client,
                 stop_it, ocd_client, ocd_ret, acc_client,
                 arg_cb, run_cb, last_call, n_starts, accept_failed>>

\* line 34: io_service::track(m_socket)
start_34 ==
  /\ pc["caller"] = "start_34"
  /\ io_tracked' = TRUE
  /\ pc' = [pc EXCEPT !["caller"] = "start_35"]
  /\ UNCHANGED <<osVars, sockVars, m_is_running, m_on_new_connection_callback, m_socket,
                 m_clients, m_clients_mtx, io_rd_callback, client,
                 stop_it, ocd_client, ocd_ret, acc_client, callerVars>>

\* line 35: io_service::set_rd_callback(m_socket, on_read_available)
start_35 ==
  /\ pc["caller"] = "start_35"
  /\ io_rd_callback' = TRUE
  /\ pc' = [pc EXCEPT !["caller"] = "start_36"]
  /\ UNCHANGED <<osVars, sockVars, m_is_running, m_on_new_connection_callback, m_socket,
                 m_clients, m_clients_mtx, io_tracked, client,
                 stop_it, ocd_client, ocd_ret, acc_client, callerVars>>

\* line 36
start_36 ==
  /\ pc["caller"] = "start_36"
  /\ m_on_new_connection_callback' = arg_cb
  /\ pc' = [pc EXCEPT !["caller"] = "start_38"]
  /\ UNCHANGED <<osVars, sockVars, m_is_running, m_socket,
                 m_clients, m_clients_mtx, io_tracked, io_rd_callback, client,
                 stop_it, ocd_client, ocd_ret, acc_client, callerVars>>

\* lines 38-41
start_38 ==
  /\ pc["caller"] = "start_38"
  /\ m_is_running' = TRUE
  /\ pc' = [pc EXCEPT !["caller"] = "idle"]
  /\ result' = "tcp_server running"
  /\ UNCHANGED <<osVars, sockVars, m_on_new_connection_callback, m_socket,
                 m_clients, m_clients_mtx, io_tracked, io_rd_callback, client,
                 stop_it, ocd_client, ocd_ret, acc_client,
                 arg_cb, run_cb, last_call, n_starts, accept_failed>>

\* ----------------------------------------------------- tcp_server::stop
\* the caller calls stop()
CallStop ==
  /\ pc["caller"] = "idle"
  /\ last_call # "dtor"
  /\ pc' = [pc EXCEPT !["caller"] = "stop_45"]
  /\ last_call' = "stop"
  /\ result' = "pending"
  /\ UNCHANGED <<osVars, sockVars, serverVars, stop_it, ocd_client, ocd_ret, acc_client,
                 arg_cb, run_cb, n_starts, accept_failed>>

\* tcp_server::~tcp_server, lines 18-21: the caller destroys the server
Destroy ==
  /\ pc["caller"] = "idle"
  /\ last_call # "dtor"
  /\ pc' = [pc EXCEPT !["caller"] = "stop_45"]
  /\ last_call' = "dtor"
  /\ result' = "pending"
  /\ UNCHANGED <<osVars, sockVars, serverVars, stop_it, ocd_client, ocd_ret, acc_client,
                 arg_cb, run_cb, n_starts, accept_failed>>

\* what the caller sees when its call returns: stop()'s last log line
ResultAfter(t, msg) == IF t = "caller" THEN msg ELSE result

\* a stop() without its not-running check
stop_45_unguarded(t) ==
  /\ pc[t] = "stop_45"
  /\ pc' = [pc EXCEPT ![t] = "stop_47"]
  /\ UNCHANGED <<osVars, sockVars, serverVars, stop_it, ocd_client, ocd_ret,
                 acc_client, callerVars>>

\* line 45
stop_45(t) ==
  /\ pc[t] = "stop_45"
  /\ IF ~m_is_running
     THEN /\ pc' = [pc EXCEPT ![t] = "idle"]
          /\ result' = ResultAfter(t, "not running")
     ELSE /\ pc' = [pc EXCEPT ![t] = "stop_47"]
          /\ UNCHANGED result
  /\ UNCHANGED <<osVars, sockVars, serverVars, stop_it, ocd_client, ocd_ret,
                 acc_client, arg_cb, run_cb, last_call, n_starts, accept_failed>>

\* line 47
stop_47(t) ==
  /\ pc[t] = "stop_47"
  /\ m_is_running' = FALSE
  /\ pc' = [pc EXCEPT ![t] = "stop_49"]
  /\ UNCHANGED <<osVars, sockVars, m_on_new_connection_callback, m_socket,
                 m_clients, m_clients_mtx, io_tracked, io_rd_callback, client,
                 stop_it, ocd_client, ocd_ret, acc_client, callerVars>>

\* line 49: io_service::untrack(m_socket) drops the entry and its callback
stop_49(t) ==
  /\ pc[t] = "stop_49"
  /\ io_tracked' = FALSE
  /\ io_rd_callback' = FALSE
  /\ pc' = [pc EXCEPT ![t] = "stop_50"]
  /\ UNCHANGED <<osVars, sockVars, m_is_running, m_on_new_connection_callback, m_socket,
                 m_clients, m_clients_mtx, client,
                 stop_it, ocd_client, ocd_ret, acc_client, callerVars>>

\* line 50, m_socket.close() up to its system call (tcp_socket.cpp
\* 152-155): m_fd is read and, when set, closed. No lock is held, so another
\* thread's stop() may read m_fd before this one unsets it.
stop_50(t) ==
  /\ pc[t] = "stop_50"
  /\ LET e == tcp_socket_close(m_socket, os_fd, os_closes)
     IN /\ os_fd' = e.os
        /\ os_closes' = e.closes
  /\ pc' = [pc EXCEPT ![t] = "close_157"]
  /\ UNCHANGED <<sockVars, m_is_running, m_on_new_connection_callback, m_socket,
                 m_clients, m_clients_mtx, io_tracked, io_rd_callback, client,
                 stop_it, ocd_client, ocd_ret, acc_client, callerVars>>

\* line 50, the rest of m_socket.close() (tcp_socket.cpp 157-158)
close_157(t) ==
  /\ pc[t] = "close_157"
  /\ m_socket' = tcp_socket_close(m_socket, os_fd, os_closes).sock
  /\ pc' = [pc EXCEPT ![t] = "stop_52"]
  /\ UNCHANGED <<osVars, sockVars, m_is_running, m_on_new_connection_callback,
                 m_clients, m_clients_mtx, io_tracked, io_rd_callback, client,
                 stop_it, ocd_client, ocd_ret, acc_client, callerVars>>

\* line 52: std::lock_guard takes m_clients_mtx, held to the end of stop()
stop_52(t) ==
  /\ pc[t] = "stop_52"
  /\ m_clients_mtx = "free"
  /\ m_clients_mtx' = t
  /\ stop_it' = [stop_it EXCEPT ![t] = 1]
  /\ pc' = [pc EXCEPT ![t] = "stop_53"]
  /\ UNCHANGED <<osVars, sockVars, m_is_running, m_on_new_connection_callback, m_socket,
                 m_clients, io_tracked, io_rd_callback, client,
                 ocd_client, ocd_ret, acc_client, callerVars>>

\* line 53: one turn of the loop, client->disconnect() on the next client;
\* the client's disconnection handler runs on_client_disconnected in this thread
stop_53(t) ==
  /\ pc[t] = "stop_53"
  /\ IF stop_it[t] > Len(m_clients)
     THEN /\ pc' = [pc EXCEPT ![t] = "stop_54"]
          /\ UNCHANGED <<osVars, client, stop_it, ocd_client, ocd_ret>>
     ELSE LET c == m_clients[stop_it[t]]
              d == tcp_client_disconnect(c, os_fd, os_closes)
          IN /\ client' = [client EXCEPT ![c] = d.rec]
             /\ os_fd' = d.os
             /\ os_closes' = d.closes
             /\ stop_it' = [stop_it EXCEPT ![t] = stop_it[t] + 1]
             /\ IF d.call_handler
                THEN /\ pc' = [pc EXCEPT ![t] = "ocd_94"]
                     /\ ocd_client' = [ocd_client EXCEPT ![t] = c]
                     /\ ocd_ret' = [ocd_ret EXCEPT ![t] = "stop_53"]
                ELSE UNCHANGED <<pc, ocd_client, ocd_ret>>
  /\ UNCHANGED <<sockVars, m_is_running, m_on_new_connection_callback, m_socket,
                 m_clients, m_clients_mtx, io_tracked, io_rd_callback,
                 acc_client, callerVars>>

\* lines 54-57: clear, log, the lock_guard releases the mutex, return
stop_54(t) ==
  /\ pc[t] = "stop_54"
  /\ m_clients' = << >>
  /\ m_clients_mtx' = "free"
  /\ stop_it' = [stop_it EXCEPT ![t] = 1]
  /\ pc' = [pc EXCEPT ![t] = "idle"]
  /\ result' = ResultAfter(t, "tcp_server stopped")
  /\ UNCHANGED <<osVars, sockVars, m_is_running, m_on_new_connection_callback, m_socket,
                 io_tracked, io_rd_callback, client,
                 ocd_client, ocd_ret, acc_client,
                 arg_cb, run_cb, last_call, n_starts, accept_failed>>

\* -------------------------------------- tcp_server::on_client_disconnected
\* line 94
ocd_94(t) ==
  /\ pc[t] = "ocd_94"
  /\ IF ~m_is_running
     THEN /\ pc' = [pc EXCEPT ![t] = ocd_ret[t]]
          /\ client' = [client EXCEPT ![ocd_client[t]].handler = "returned"]
     ELSE /\ pc' = [pc EXCEPT ![t] = "ocd_98"]
          /\ UNCHANGED client
  /\ UNCHANGED <<osVars, sockVars, m_is_running, m_on_new_connection_callback, m_socket,
                 m_clients, m_clients_mtx, io_tracked, io_rd_callback,
                 stop_it, ocd_client, ocd_ret, acc_client, callerVars>>

\* line 98: std::lock_guard takes m_clients_mtx (a std::mutex: a thread that
\* already holds it never gets it)
ocd_98(t) ==
  /\ pc[t] = "ocd_98"
  /\ m_clients_mtx = "free"
  /\ m_clients_mtx' = t
  /\ pc' = [pc EXCEPT ![t] = "ocd_99"]
  /\ UNCHANGED <<osVars, sockVars, m_is_running, m_on_new_connection_callback, m_socket,
                 m_clients, io_tracked, io_rd_callback, client,
                 stop_it, ocd_client, ocd_ret, acc_client, callerVars>>

\* lines 99-102: find, erase, unlock, return
ocd_99(t) ==
  /\ pc[t] = "ocd_99"
  /\ m_clients' = EraseClient(m_clients, ocd_client[t])
  /\ m_clients_mtx' = "free"
  /\ client' = [client EXCEPT ![ocd_client[t]].handler = "removed"]
  /\ pc' = [pc EXCEPT ![t] = ocd_ret[t]]
  /\ UNCHANGED <<osVars, sockVars, m_is_running, m_on_new_connection_callback, m_socket,
                 io_tracked, io_rd_callback,
                 stop_it, ocd_client, ocd_ret, acc_client, callerVars>>

\* ---------------------------------------- tcp_server::on_read_available
\* io_service: the reactor thread invokes the read callback of the tracked
\* listening socket
io_dispatch ==
  /\ pc["reactor"] = "idle"
  /\ io_tracked
  /\ io_rd_callback
  /\ pc' = [pc EXCEPT !["reactor"] = "ora_68"]
  /\ UNCHANGED <<osVars, sockVars, serverVars, stop_it, ocd_client, ocd_ret,
                 acc_client, callerVars>>

\* line 68, m_socket.accept() up to its system call (tcp_socket.cpp 132-133)
ora_68 ==
  /\ pc["reactor"] = "ora_68"
  /\ \E newfd \in SocketResults(os_fd) :
       LET e == Enter(m_socket, os_fd, newfd, "SERVER")
       IN /\ m_socket' = e.sock
          /\ os_fd' = e.os
          /\ pc' = [pc EXCEPT !["reactor"] = IF e.res = "ok" THEN "accept_138" ELSE "ora_80"]
  /\ UNCHANGED <<os_closes, sockVars, m_is_running, m_on_new_connection_callback,
                 m_clients, m_clients_mtx, io_tracked, io_rd_callback, client,
                 stop_it, ocd_client, ocd_ret, acc_client, callerVars>>

\* line 68, the rest: ::accept (tcp_socket.cpp 138-143) and
\* std::make_shared<tcp_client>(accepted socket)
accept_138 ==
  /\ pc["reactor"] = "accept_138"
  /\ \E client_fd \in (IF NewClient = 0 THEN {NoFd} ELSE OsAcceptResults(os_fd, m_socket.fd)) :
       LET e == tcp_socket_accept_sys(m_socket, os_fd, client_fd)
       IN /\ os_fd' = e.os
          /\ IF e.res = "ok"
             THEN /\ client' = [client EXCEPT ![NewClient] = tcp_client_from(e.new)]
                  /\ acc_client' = NewClient
                  /\ pc' = [pc EXCEPT !["reactor"] = "ora_70"]
             ELSE /\ pc' = [pc EXCEPT !["reactor"] = "ora_80"]
                  /\ UNCHANGED <<client, acc_client>>
  /\ UNCHANGED <<os_closes, sockVars, m_is_running, m_on_new_connection_callback, m_socket,
                 m_clients, m_clients_mtx, io_tracked, io_rd_callback,
                 stop_it, ocd_client, ocd_ret, callerVars>>

\* an admission test that keeps the connection whatever the callback says
ora_70_keep(verdict) == "ora_73"

\* line 70: where the if goes on the callback's verdict
ora_70_branch(verdict) == IF verdict THEN "ora_73" ELSE "ora_77"

\* what an admission callback may throw instead of returning: a
\* tacopie_error (any tacopie call it makes may throw one) or something else
CallbackErrors == {"tacopie_error", "other_error"}

\* lines 65, 80: the try block's handler takes a tacopie_error only; any
\* other exception leaves on_read_available
ora_70_handler(err) == IF err = "tacopie_error" THEN "ora_80" ELSE "ora_unwind"

\* line 70: no callback, or the callback is called and returns verdict, or
\* the callback is called and throws err
ora_70 ==
  /\ pc["reactor"] = "ora_70"
  /\ IF m_on_new_connection_callback = "null"
     THEN /\ client' = [client EXCEPT ![acc_client].verdict = "kept"]
          /\ pc' = [pc EXCEPT !["reactor"] = "ora_73"]
     ELSE \/ \E verdict \in BOOLEAN :
               /\ client' = [client EXCEPT
                    ![acc_client].offered_to = m_on_new_connection_callback,
                    ![acc_client].verdict = IF verdict THEN "accepted" ELSE "dismissed"]
               /\ pc' = [pc EXCEPT !["reactor"] = ora_70_branch(verdict)]
          \/ \E err \in CallbackErrors :
               /\ client' = [client EXCEPT
                    ![acc_client].offered_to = m_on_new_connection_callback,
                    ![acc_client].verdict = "threw"]
               /\ pc' = [pc EXCEPT !["reactor"] = ora_70_handler(err)]
  /\ UNCHANGED <<osVars, sockVars, m_is_running, m_on_new_connection_callback, m_socket,
                 m_clients, m_clients_mtx, io_tracked, io_rd_callback,
                 stop_it, ocd_client, ocd_ret, acc_client, callerVars>>

\* line 73
ora_73 ==
  /\ pc["reactor"] = "ora_73"
  /\ client' = [client EXCEPT ![acc_client].wired = TRUE]
  /\ pc' = [pc EXCEPT !["reactor"] = "ora_74"]
  /\ UNCHANGED <<osVars, sockVars, m_is_running, m_on_new_connection_callback, m_socket,
                 m_clients, m_clients_mtx, io_tracked, io_rd_callback,
                 stop_it, ocd_client, ocd_ret, acc_client, callerVars>>

\* line 74, then the end of the try block
ora_74 ==
  /\ pc["reactor"] = "ora_74"
  /\ m_clients' = Append(m_clients, acc_client)
  /\ acc_client' = 0
  /\ pc' = [pc EXCEPT !["reactor"] = "idle"]
  /\ UNCHANGED <<osVars, sockVars, m_is_running, m_on_new_connection_callback, m_socket,
                 m_clients_mtx, io_tracked, io_rd_callback, client,
                 stop_it, ocd_client, ocd_ret, callerVars>>

\* lines 76-79: dismissed; the last shared_ptr goes at the end of the try
\* block and tcp_client::~tcp_client disconnects the client
ora_77 ==
  /\ pc["reactor"] = "ora_77"
  /\ LET d == tcp_client_disconnect(acc_client, os_fd, os_closes)
     IN /\ client' = [client EXCEPT ![acc_client] = d.rec]
        /\ os_fd' = d.os
        /\ os_closes' = d.closes
  /\ acc_client' = 0
  /\ pc' = [pc EXCEPT !["reactor"] = "idle"]
  /\ UNCHANGED <<sockVars, m_is_running, m_on_new_connection_callback, m_socket,
                 m_clients, m_clients_mtx, io_tracked, io_rd_callback,
                 stop_it, ocd_client, ocd_ret, callerVars>>

\* the stack unwinding of an exception thrown in the try block: the
\* shared_ptr named client, when line 68 made one, goes and
\* tcp_client::~tcp_client disconnects the client (it has no handler yet)
Unwind ==
  IF acc_client = 0
  THEN [client |-> client, os |-> os_fd, closes |-> os_closes]
  ELSE LET d == tcp_client_disconnect(acc_client, os_fd, os_closes)
       IN [client |-> [client EXCEPT ![acc_client] = d.rec],
           os |-> d.os, closes |-> d.closes]

\* lines 80-83: a tacopie_error thrown by accept() or by the admission
\* callback is caught, and the catch block calls stop()
ora_80 ==
  /\ pc["reactor"] = "ora_80"
  /\ client' = Unwind.client
  /\ os_fd' = Unwind.os
  /\ os_closes' = Unwind.closes
  /\ acc_client' = 0
  /\ accept_failed' = (accept_failed \/ acc_client = 0)
  /\ pc' = [pc EXCEPT !["reactor"] = "stop_45"]
  /\ UNCHANGED <<sockVars, m_is_running, m_on_new_connection_callback, m_socket,
                 m_clients, m_clients_mtx, io_tracked, io_rd_callback,
                 stop_it, ocd_client, ocd_ret,
                 arg_cb, run_cb, last_call, result, n_starts>>

\* lines 65-84: an exception that is no tacopie_error leaves
\* on_read_available
ora_unwind ==
  /\ pc["reactor"] = "ora_unwind"
  /\ client' = Unwind.client
  /\ os_fd' = Unwind.os
  /\ os_closes' = Unwind.closes
  /\ acc_client' = 0
  /\ pc' = [pc EXCEPT !["reactor"] = "idle"]
  /\ UNCHANGED <<sockVars, m_is_running, m_on_new_connection_callback, m_socket,
                 m_clients, m_clients_mtx, io_tracked, io_rd_callback,
                 stop_it, ocd_client, ocd_ret, callerVars>>

\* --------------------------------------------------- a client disconnects
\* the peer closes, or I/O fails, on a connection the application reads
\* from (it was given to the admission callback or is in the collection):
\* the worker thread calls tcp_client::disconnect, whose handler is
\* on_client_disconnected
organic_disconnect(c) ==
  /\ pc["worker"] = "idle"
  /\ client[c].connected
  /\ client[c].offered_to # "none" \/ InClients(c)
  /\ LET d == tcp_client_disconnect(c, os_fd, os_closes)
     IN /\ client' = [client EXCEPT ![c] = d.rec]
        /\ os_fd' = d.os
        /\ os_closes' = d.closes
        /\ IF d.call_handler
           THEN /\ pc' = [pc EXCEPT !["worker"] = "ocd_94"]
                /\ ocd_client' = [ocd_client EXCEPT !["worker"] = c]
                /\ ocd_ret' = [ocd_ret EXCEPT !["worker"] = "idle"]
           ELSE UNCHANGED <<pc, ocd_client, ocd_ret>>
  /\ UNCHANGED <<sockVars, m_is_running, m_on_new_connection_callback, m_socket,
                 m_clients, m_clients_mtx, io_tracked, io_rd_callback,
                 stop_it, acc_client, callerVars>>

\* ------------------------------------------------------------------ Next
Next ==
  \/ \E cb \in Callbacks : CallStart(cb)
  \/ start_29
  \/ start_31
  \/ start_32
  \/ start_34
  \/ start_35
  \/ start_36
  \/ start_38
  \/ CallStop
  \/ Destroy
  \/ \E t \in Threads : stop_45(t)
  \/ \E t \in Threads : stop_47(t)
  \/ \E t \in Threads : stop_49(t)
  \/ \E t \in Threads : stop_50(t)
  \/ \E t \in Threads : close_157(t)
  \/ \E t \in Threads : stop_52(t)
  \/ \E t \in Threads : stop_53(t)
  \/ \E t \in Threads : stop_54(t)
  \/ \E t \in Threads : ocd_94(t)
  \/ \E t \in Threads : ocd_98(t)
  \/ \E t \in Threads : ocd_99(t)
  \/ io_dispatch
  \/ ora_68
  \/ accept_138
  \/ ora_70
  \/ ora_73
  \/ ora_74
  \/ ora_77
  \/ ora_80
  \/ ora_unwind
  \/ \E c \in ClientIds : organic_disconnect(c)

Spec == Init /\ [][Next]_vars

SockSpec == Init /\ [][SockNext]_vars

\* ================================================================ claims
\* everything of the server and the OS that a call can change
ServerState ==
  <<m_is_running, m_on_new_connection_callback, m_socket, m_clients, m_clients_mtx,
    io_tracked, io_rd_callback, client, os_fd, os_closes>>

\* thread t takes a step from position p
StepsFrom(t, p) == pc[t] = p /\ pc'[t] # p

\* C1: start() on a server that is running throws "already running" and
\* returns at once, leaving the running flag, the listening socket, the
\* admission callback, the client collection, the reactor registration and
\* every descriptor as they were (no bind, listen or track).
C1_StartWhileRunningFails ==
  [][(StepsFrom("caller", "start_29") /\ m_is_running)
       => /\ pc'["caller"] = "idle"
          /\ result' = "tcp_server is already running"
          /\ m_is_running'
          /\ UNCHANGED ServerState]_vars

\* start(cb) was refused on a running server whose callback is another one
C1_Witness ==
  /\ pc["caller"] = "idle"
  /\ result = "tcp_server is already running"
  /\ m_is_running
  /\ io_tracked
  /\ arg_cb # m_on_new_connection_callback

\* the bind() call of line 31 made in this step threw
BindFails ==
  \E newfd \in SocketResults(os_fd), dns_ok \in BOOLEAN, sys_ok \in BOOLEAN :
    LET e == tcp_socket_bind(m_socket, os_fd, newfd, dns_ok, sys_ok)
    IN e.res # "ok" /\ m_socket' = e.sock /\ os_fd' = e.os

\* the listen() call of line 32 made in this step threw
ListenFails ==
  \E newfd \in SocketResults(os_fd), sys_ok \in BOOLEAN :
    LET e == tcp_socket_listen(m_socket, os_fd, newfd, sys_ok)
    IN e.res # "ok" /\ m_socket' = e.sock /\ os_fd' = e.os

StartErrors ==
  {"socket() failure", "invalid operation", "gethostbyname() failure",
   "bind() failure", "listen() failure"}

\* C2: when bind() or listen() throws inside start(), start() returns in
\* that very step with the error as its outcome (no retry, no later line
\* runs), the server is not running, and the step registers nothing with
\* the reactor: tracking, read callback and admission callback are untouched.
C2_BindListenFailureLeavesStopped ==
  [][((StepsFrom("caller", "start_31") /\ BindFails)
        \/ (StepsFrom("caller", "start_32") /\ ListenFails))
       => /\ pc'["caller"] = "idle"
          /\ result' \in StartErrors
          /\ ~m_is_running /\ ~m_is_running'
          /\ UNCHANGED <<io_tracked, io_rd_callback, m_on_new_connection_callback,
                         m_clients, client>>]_vars

\* start() has returned with a listen() failure on a server that is not
\* running and not tracked
C2_Witness ==
  /\ pc["caller"] = "idle"
  /\ last_call = "start"
  /\ result = "listen() failure"
  /\ ~m_is_running
  /\ ~io_tracked
  /\ ~io_rd_callback

\* C3: stop() is idempotent. A stop() that finds the server not running
\* returns at once and changes nothing: no untrack, no close, no disconnect.
\* And when a stop() of the caller (or the destructor's) has returned the
\* server is not running, so that a stop() called next is such a call.
C3_StopIdempotent ==
  /\ []((pc["caller"] = "idle" /\ last_call \in {"stop", "dtor"}) => ~m_is_running)
  /\ [][\A t \in Threads :
          (StepsFrom(t, "stop_45") /\ ~m_is_running)
            => /\ pc'[t] = "idle"
               /\ UNCHANGED ServerState]_vars

\* the destructor's stop() found a server that was started and torn down
\* before, and returned without doing anything
C3_Witness ==
  /\ pc["caller"] = "idle"
  /\ last_call = "dtor"
  /\ result = "not running"
  /\ n_starts > 0
  /\ m_socket.fd = NoFd
  /\ \E f \in Fds : os_closes[f] = 1
  /\ \A f \in Fds : os_closes[f] <= 1

ClientOps == {"connect", "send", "recv"}
ServerOps == {"bind", "listen", "accept"}
RoleOf(op) == IF op \in ClientOps THEN "CLIENT" ELSE "SERVER"

\* C4: role immutability. On a socket whose role was fixed by one of its
\* own operations, an operation of the other role throws "invalid
\* operation" and leaves the descriptor and the role as they were.
C4_RoleImmutable ==
  [][\A s \in SockIds :
       (/\ role_by[s] = "op"
        /\ sk[s].type \in {"CLIENT", "SERVER"}
        /\ sk_call'.s = s
        /\ sk_call'.op \in ClientOps \cup ServerOps
        /\ RoleOf(sk_call'.op) # sk[s].type)
         => /\ sk_result' = "invalid operation"
            /\ sk'[s] = sk[s]]_vars

\* bind() was refused on a socket that connect() had connected
C4_Witness ==
  /\ sk_call.op = "bind"
  /\ sk_result = "invalid operation"
  /\ role_by[sk_call.s] = "op"
  /\ sk[sk_call.s].type = "CLIENT"
  /\ sk[sk_call.s].fd # NoFd
  /\ os_fd[sk[sk_call.s].fd] = "connected"

\* C5: close() is idempotent. No descriptor is ever closed twice; a close()
\* on a socket without descriptor makes no OS call; after any close() the
\* descriptor is unset and the role is UNKNOWN.
C5_CloseIdempotent ==
  /\ [](\A f \in Fds : os_closes[f] <= 1)
  /\ [][\A s \in SockIds :
          (sk_call'.op = "close" /\ sk_call'.s = s /\ sk_call' # sk_call)
            => /\ sk'[s] = tcp_socket_default
               /\ sk[s].fd = NoFd => UNCHANGED osVars
               /\ sk[s].fd # NoFd => os_closes'[sk[s].fd] = 1]_vars

\* a second close() on a socket whose descriptor an earlier close() closed
C5_Witness ==
  /\ sk_call.op = "close"
  /\ sk_result = "no socket to close"
  /\ sk[sk_call.s] = tcp_socket_default
  /\ \E f \in Fds : os_closes[f] = 1 /\ os_fd[f] = "closed"

C7_AcceptStopLeavesNothing ==
  (/\ pc["caller"] = "idle"
   /\ last_call \in {"stop", "dtor"}
   /\ pc["reactor"] = "idle")
    => /\ m_clients = << >>
       /\ \A c \in ClientIds : ~client[c].connected

\* C8: a connection in the collection that was accepted for a start() with
\* an admission callback was offered to that callback.
C8_EveryConnectionOffered ==
  \A c \in ClientIds :
    (InClients(c) /\ client[c].start_cb \notin {"none", "null"})
      => client[c].offered_to = client[c].start_cb

\* C9: a connection whose disconnection handler has run through its removal
\* (the server was running) is not in the collection.
C9_DisconnectedClientRemoved ==
  \A c \in ClientIds : client[c].handler = "removed" => ~InClients(c)

\* C10: when an accept() failure was caught and on_read_available has
\* returned, with no start() called since and the caller in no call, the
\* server is not running, the listening socket is untracked and closed, the
\* collection is empty and every client is disconnected.
C10_AcceptFailureStops ==
  (/\ accept_failed
   /\ pc["reactor"] = "idle"
   /\ pc["caller"] = "idle")
    => /\ ~m_is_running
       /\ ~io_tracked
       /\ m_socket = tcp_socket_default
       /\ m_clients = << >>
       /\ \A c \in ClientIds : ~client[c].connected

\* C11: recv() has three outcomes that its caller can tell apart. Whenever
\* recv() got to ::recv, it returns a buffer exactly when ::recv returned
\* more than 0, throws "nothing to read, socket has been closed by remote
\* host" exactly when ::recv returned 0, and throws "recv() failure" exactly
\* when ::recv returned -1.
C11_RecvOutcomesDistinct ==
  (sk_call.op = "recv" /\ sk_recv # NoRecv)
    => /\ sk_recv.rd_size > 0 <=> (sk_result = "ok" /\ sk_recv.data_len # NoData)
       /\ sk_recv.rd_size = RecvClosed
            <=> sk_result = "nothing to read, socket has been closed by remote host"
       /\ sk_recv.rd_size = RecvError <=> sk_result = "recv() failure"

\* recv() on a connected socket found that the peer had closed
C11_Witness ==
  /\ sk_call.op = "recv"
  /\ sk_recv.rd_size = RecvClosed
  /\ sk_result = "nothing to read, socket has been closed by remote host"
  /\ sk[sk_call.s].type = "CLIENT"
  /\ os_fd[sk[sk_call.s].fd] = "connected"

\* C12: no two live sockets hold the same descriptor. After a move the
\* source is unset (descriptor -1, role UNKNOWN) and the new socket holds
\* what the source held; the socket accept() returns is a CLIENT socket on a
\* descriptor that is not the listening socket's.
C12_NoSharedDescriptor ==
  /\ [](\A s \in SockIds, d \in SockIds :
          (s # d /\ sk[s].fd # NoFd) => sk[s].fd # sk[d].fd)
  /\ [][\A s \in SockIds :
          /\ (sk_call'.op = "move" /\ sk_call'.s = s)
               => /\ sk'[s] = tcp_socket_default
                  /\ \E d \in SockIds \ {s} : sk'[d] = sk[s]
          /\ (sk_call'.op = "accept" /\ sk_call'.s = s /\ sk_result' = "ok")
               => \E d \in SockIds \ {s} :
                    /\ sk'[d].type = "CLIENT"
                    /\ sk'[d].fd # NoFd
                    /\ sk'[d].fd # sk'[s].fd
                    /\ sk'[s].fd = sk[s].fd]_vars

\* a listening socket was moved: the new socket listens, the source is unset
C12_Witness ==
  /\ sk_call.op = "move"
  /\ sk[sk_call.s] = tcp_socket_default
  /\ \E d \in SockIds \ {sk_call.s} :
       /\ sk[d].type = "SERVER"
       /\ sk[d].fd # NoFd
       /\ os_fd[sk[d].fd] = "listening"

\* C16: over any public operation, a socket's role never goes from CLIENT
\* to SERVER or from SERVER to CLIENT: a step that finds a socket with one
\* of these roles and leaves it with one of them leaves it with the same.
C16_RoleNeverSwitches ==
  [][\A s \in SockIds :
       (sk[s].type \in {"CLIENT", "SERVER"} /\ sk'[s].type \in {"CLIENT", "SERVER"})
         => sk'[s].type = sk[s].type]_vars

\* C20: a recv() that returns data returns a buffer whose length is the
\* number of bytes ::recv received.
C20_RecvReturnsReceivedBytes ==
  (sk_call.op = "recv" /\ sk_recv # NoRecv /\ sk_result = "ok")
    => sk_recv.data_len = sk_recv.rd_size

\* C13: a disconnection handler that fires during stop() never deadlocks on
\* the clients mutex: no thread waits at line 98 for the mutex it holds
\* itself since line 52.
C13_HandlerInStopNoDeadlock ==
  \A t \in Threads : ~(pc[t] = "ocd_98" /\ m_clients_mtx = t)

\* C14: a thread that changes the client collection holds the clients mutex.
C14_MutationsUnderMutex ==
  [][\A t \in Threads :
       (pc'[t] # pc[t] /\ m_clients' # m_clients) => m_clients_mtx = t]_vars

\* C15: no disconnection handler runs in a thread whose stop() holds the
\* clients mutex.
C15_NoCallbackUnderMutex ==
  \A t \in Threads :
    ~(m_clients_mtx = t /\ pc[t] \in {"ocd_94", "ocd_98"} /\ ocd_ret[t] = "stop_53")

\* the positions of stop() past its is_running() check
StopBody == {"stop_47", "stop_49", "stop_50", "close_157", "stop_52", "stop_53", "stop_54"}

\* C18: when on_read_available starts after a stop() of the caller has torn
\* the server down and returned, its accept() leaves the listening socket
\* unset and creates no descriptor, and the server stays not running.
C18_LateCallbackNoEffect ==
  [][(/\ StepsFrom("reactor", "ora_68")
      /\ pc["caller"] = "idle"
      /\ last_call \in {"stop", "dtor"}
      /\ result = "tcp_server stopped"
      /\ pc["worker"] = "idle"
      /\ ~m_is_running
      /\ m_socket = tcp_socket_default)
       => /\ m_socket' = tcp_socket_default
          /\ UNCHANGED <<os_fd, m_clients, m_is_running>>]_vars

\* C19: at most one thread at a time is in the teardown of stop(), and no
\* descriptor is closed twice.
C19_TeardownAtMostOnce ==
  /\ Cardinality({t \in Threads : pc[t] \in StopBody}) <= 1
  /\ \A f \in Fds : os_closes[f] <= 1

\* C17: an admission callback that throws does not stop the server. In a
\* server started once, whose start() returned and whose caller called
\* nothing since, with no accept() failure caught, a callback having
\* thrown, the server is running and its listening socket is tracked.
C17_CallbackFailureDoesNotStop ==
  (/\ n_starts = 1
   /\ pc["caller"] = "idle"
   /\ last_call = "start"
   /\ result = "tcp_server running"
   /\ ~accept_failed
   /\ \E c \in ClientIds : client[c].verdict = "threw")
    => /\ m_is_running
       /\ io_tracked
       /\ m_socket.fd # NoFd

====
